---- MODULE Spec2Model ----
(***************************************************************************)
(* CodeExecutorService (services/code-executor.ts): the in-memory session  *)
(* store and the code-execution dispatcher built on it.                    *)
(*                                                                         *)
(* The service runs on a single-threaded event loop.  A call runs without  *)
(* interruption up to its first `await`; there it is suspended and any     *)
(* other call may run before it is resumed.  Each action below is one such *)
(* uninterrupted segment of one call.                                      *)
(*                                                                         *)
(* Date.now() is the variable `now`; it never decreases, and may advance   *)
(* by one between the first and the last clock read of a segment.          *)
(* Math.random() is a free choice from Rand.                               *)
(* `ev` holds the outcome of the segment that ran last until its caller    *)
(* has taken it (Observe); the next segment runs after that.               *)
(* The iteration order of the Map is not kept: where the code iterates the *)
(* keys, the model takes an arbitrary order of them.                       *)
(***************************************************************************)
EXTENDS Integers, Sequences, FiniteSets, TLC

\* ---------------------------------------------------------------- bounds
MaxClock == 1       \* Date.now() ranges over 0..MaxClock
NumRand == 1         \* number of distinct values Math.random() can yield
MaxSessions == 2    \* sessions are created only while the store is smaller
MaxCalls == 1       \* calls that may be suspended at an await at once
MaxUploads == 2     \* <<session id, path>> pairs `uploads` keeps track of
MaxPage == 3        \* paginate: page ranges over 1..MaxPage
MaxPageSize == 3    \* paginate: pageSize ranges over 1..MaxPageSize
MaxCount == 10      \* paginate: the exact row count ranges over 0..MaxCount

VARIABLES
    apiKey,          \* this.apiKey
    activeSessions,  \* this.activeSessions : session id -> session record
    now,             \* Date.now()
    calls,           \* per caller slot: the call suspended at an await, if any
    ev,              \* the segment that ran last: operation, arguments, outcome
    issued,          \* ids returned by successive createSession calls (Successive)
    uploads,         \* <<session id, path>> -> content of the uploadFile call
                     \* that returned the path last (Transfers)
    listed,          \* the array a caller of listActiveSessions holds (Listing)
    swept            \* per caller slot: the keys its cleanup call found (Sweep)

vars == <<apiKey, activeSessions, now, calls, ev, issued, uploads, listed, swept>>

Clock == 0..MaxClock
Rand == 1..NumRand
Procs == 1..MaxCalls

\* Time that may pass between the first and the last clock read of a segment.
Delta(t) == IF t < MaxClock THEN {0, 1} ELSE {0}

\* ------------------------------------------------------- values and inputs
\* Session-id arguments.  A generated id is the template string of
\* createSession; the other values are what a caller can pass besides.
Undefined == [tag |-> "undefined", t |-> 0, r |-> 0]
EmptyString == [tag |-> "", t |-> 0, r |-> 0]
Nonexistent == [tag |-> "nonexistent", t |-> 0, r |-> 0]

SessionIdOf(t, r) == [tag |-> "session", t |-> t, r |-> r]

GeneratedIds == {SessionIdOf(t, r) : t \in Clock, r \in Rand}

\* What a caller can pass as a session id at time t: an id createSession can
\* have returned by then, or a string of its own.
SessionIdStrings(t) ==
    {id \in GeneratedIds : id.t <= t} \cup {Nonexistent, EmptyString}
OptionalSessionIds(t) == SessionIdStrings(t) \cup {Undefined}

\* `sessionId !== undefined` in the place of the truthiness test of line 51.
Truthy_Defined(s) == s # Undefined

\* JavaScript truthiness of an optional string: undefined and '' are falsy.
Truthy(s) == s # Undefined /\ s # EmptyString

\* execution_id: the clock read of the template string; its random suffix is
\* read by no operation and is left out.
ExecutionIdOf(t) == [tag |-> "exec", t |-> t]

\* process.env.E2B_API_KEY: unset, set to '', or set to a key.
EnvValues ==
    { [set |-> FALSE, value |-> ""],
      [set |-> TRUE, value |-> ""],
      [set |-> TRUE, value |-> "e2b_key"] }

constructor(env) == IF env.set /\ env.value # "" THEN env.value ELSE ""

\* Requests a caller hands to executeCode directly.
Requests ==
    { [code |-> "print(1)", language |-> "python",
       timeout_seconds |-> 60, memory_limit_mb |-> 1024],
      [code |-> "1+1", language |-> "javascript",
       timeout_seconds |-> 300, memory_limit_mb |-> 8192] }

\* Analysis tools: the two registry entries and one a caller builds itself.
MEDICAL_ANALYSIS_TOOLS ==
    { [tool_name |-> "VOE Risk Analysis",
       code_template |-> "voe_risk_analysis.code_template",
       required_packages |-> <<"pandas", "numpy", "matplotlib", "seaborn">>],
      [tool_name |-> "Lab Trend Analysis",
       code_template |-> "lab_trend_analysis.code_template",
       required_packages |-> <<"pandas", "numpy", "matplotlib", "seaborn">>] }

CustomTool ==
    [tool_name |-> "custom", code_template |-> "custom.code_template",
     required_packages |-> <<"scipy">>]

VoeRiskAnalysis == CHOOSE t \in MEDICAL_ANALYSIS_TOOLS : t.tool_name = "VOE Risk Analysis"

Tools == {VoeRiskAnalysis, CustomTool}

\* Data payloads: patient fields, and a payload that names request fields.
DataPayloads ==
    { [kind |-> "patient", age |-> 12, language |-> "python",
       timeout_seconds |-> 0, memory_limit_mb |-> 0],
      [kind |-> "override", age |-> 0, language |-> "r",
       timeout_seconds |-> 5, memory_limit_mb |-> 128] }

Filenames == {"a.txt", "plot.png"}
Contents == {"bytes-1", "bytes-2"}

\* ------------------------------------------------------------ the Map
EmptyMap == [k \in {} |-> k]

MapSet(m, k, v) == [x \in DOMAIN m \cup {k} |-> IF x = k THEN v ELSE m[x]]
MapDelete(m, k) == [x \in DOMAIN m \ {k} |-> m[x]]
MapHas(m, k) == k \in DOMAIN m

\* The orders in which the keys of m can be listed.
KeyOrders(m) ==
    LET n == Cardinality(DOMAIN m)
    IN {s \in [1..n -> DOMAIN m] : \A i, j \in 1..n : i # j => s[i] # s[j]}

\* ------------------------------------------------------------- errors
NoError == [template |-> "", sessionId |-> Undefined]
ConfigurationError ==
    [template |-> "E2B API key not configured", sessionId |-> Undefined]
SessionNotFound(sessionId) ==
    [template |-> "Session ${sessionId} not found", sessionId |-> sessionId]

\* ------------------------------------------------------ pure handlers
\* createSession without the credential test: a session is opened whatever
\* the key.
createSessionRun_NoKeyTest(key, m, t, r, tc) ==
    LET sessionId == SessionIdOf(t, r)
    IN [ok |-> TRUE, id |-> sessionId, error |-> NoError,
        store |-> MapSet(m, sessionId, [id |-> sessionId, created |-> tc])]

\* createSession starting the store afresh with the session it opens.
createSessionRun_Replace(key, m, t, r, tc) ==
    IF key = ""
    THEN [ok |-> FALSE, id |-> Undefined, error |-> ConfigurationError, store |-> m]
    ELSE LET sessionId == SessionIdOf(t, r)
         IN [ok |-> TRUE, id |-> sessionId, error |-> NoError,
             store |-> MapSet(EmptyMap, sessionId, [id |-> sessionId, created |-> tc])]

\* createSession: the id is built from the clock and a random draw; t is the
\* clock read of the id, tc the later one of `created`.
createSessionRun(key, m, t, r, tc) ==
    IF key = ""
    THEN [ok |-> FALSE, id |-> Undefined, error |-> ConfigurationError, store |-> m]
    ELSE LET sessionId == SessionIdOf(t, r)
         IN [ok |-> TRUE, id |-> sessionId, error |-> NoError,
             store |-> MapSet(m, sessionId, [id |-> sessionId, created |-> tc])]

\* getSession without its check: the lookup result is returned as it is.
getSession_Unchecked(m, sessionId) ==
    [ok |-> TRUE,
     session |-> IF MapHas(m, sessionId) THEN m[sessionId] ELSE Undefined,
     error |-> NoError]

getSession(m, sessionId) ==
    IF MapHas(m, sessionId)
    THEN [ok |-> TRUE, session |-> m[sessionId], error |-> NoError]
    ELSE [ok |-> FALSE, session |-> Undefined, error |-> SessionNotFound(sessionId)]

CompletedResult(executionId, startTime, endTime) ==
    [execution_id |-> executionId,
     status |-> "completed",
     stdout |-> "Mock execution completed successfully",
     return_value |-> [message |-> "Mock result"],
     execution_time_ms |-> endTime - startTime,
     started_at |-> startTime,
     completed_at |-> endTime]

\* The result of the catch block built on the fields of the try block's.
FailedResult_OnCompleted(executionId, startTime, endTime, error) ==
    [execution_id |-> executionId,
     status |-> "failed",
     stdout |-> "Mock execution completed successfully",
     return_value |-> [message |-> "Mock result"],
     execution_time_ms |-> endTime - startTime,
     error_details |-> [error_type |-> "SystemError", error_message |-> error],
     started_at |-> startTime,
     completed_at |-> endTime]

FailedResult(executionId, startTime, endTime, error) ==
    [execution_id |-> executionId,
     status |-> "failed",
     execution_time_ms |-> endTime - startTime,
     error_details |-> [error_type |-> "SystemError", error_message |-> error],
     started_at |-> startTime,
     completed_at |-> endTime]

\* executeCode without the validation of line 52.
executeCodeTry_NoValidation(m, currentSessionId, executionId, startTime, endTime) ==
    [thrown |-> FALSE, error |-> NoError,
     value |-> CompletedResult(executionId, startTime, endTime)]

\* executeCode, the try block from the validation on: what it returns, or
\* what it throws.
executeCodeTry(m, currentSessionId, executionId, startTime, endTime) ==
    LET got == getSession(m, currentSessionId)
    IN IF got.ok
       THEN [thrown |-> FALSE, error |-> NoError,
             value |-> CompletedResult(executionId, startTime, endTime)]
       ELSE [thrown |-> TRUE, error |-> got.error]

\* executeCode with the validation outside the try block: what it throws
\* rejects the promise.
executeCodeCatch_Uncaught(attempt, executionId, startTime, endTime) ==
    IF attempt.thrown
    THEN [outcome |-> "rejected", value |-> attempt.error]
    ELSE [outcome |-> "resolved", value |-> attempt.value]

\* executeCode, the catch block: how the promise of the call settles.
executeCodeCatch(attempt, executionId, startTime, endTime) ==
    IF attempt.thrown
    THEN [outcome |-> "resolved",
          value |-> FailedResult(executionId, startTime, endTime, attempt.error)]
    ELSE [outcome |-> "resolved", value |-> attempt.value]

\* destroySession clearing the Map instead of deleting the one key.
destroySessionRun_Clear(m, sessionId) ==
    IF MapHas(m, sessionId) THEN EmptyMap ELSE m

destroySessionRun(m, sessionId) ==
    IF MapHas(m, sessionId) THEN MapDelete(m, sessionId) ELSE m

\* How the promise of a destroySession call settles: its catch block swallows
\* whatever the deletion throws.
destroySessionOutcome(m, sessionId) == "resolved"

\* Promise.all: rejects as soon as one of the promises does.
PromiseAll(outcomes) ==
    IF \A i \in DOMAIN outcomes : outcomes[i] = "resolved" THEN "resolved" ELSE "rejected"

\* cleanup destroying the first key of its snapshot only.
destroyAll_First(m, sessionIds) ==
    IF sessionIds = <<>> THEN m ELSE destroySessionRun(m, Head(sessionIds))

RECURSIVE destroyAll(_, _)
destroyAll(m, sessionIds) ==
    IF sessionIds = <<>>
    THEN m
    ELSE destroyAll(destroySessionRun(m, Head(sessionIds)), Tail(sessionIds))

\* executeMedicalAnalysis letting the payload set the limits of the request.
ToolRequest_FromData(tool, data) ==
    [code |-> tool.code_template,
     language |-> "python",
     environment |-> [packages |-> tool.required_packages],
     timeout_seconds |-> IF data.kind = "override" THEN data.timeout_seconds ELSE 120,
     memory_limit_mb |-> IF data.kind = "override" THEN data.memory_limit_mb ELSE 1024]

ToolRequest(tool, data) ==
    [code |-> tool.code_template,
     language |-> "python",
     environment |-> [packages |-> tool.required_packages],
     timeout_seconds |-> 120,
     memory_limit_mb |-> 1024]

\* healthCheck without the credential test.
healthCheckRun_NoKeyTest(key) == [status |-> "connected", message |-> ""]

healthCheckRun(key) ==
    IF key = ""
    THEN [status |-> "disconnected", message |-> "E2B API key not configured"]
    ELSE [status |-> "connected", message |-> ""]

\* ------------------------------------------------------------- state
Idle == [pc |-> "idle"]
\* No caller holds an array listActiveSessions returned.
NotListed == [returned |-> FALSE]
NoEvent == [op |-> "none"]

Init ==
    /\ apiKey \in {constructor(env) : env \in EnvValues}
    /\ activeSessions = EmptyMap
    /\ now = 0
    /\ calls = [p \in Procs |-> Idle]
    /\ ev = NoEvent
    /\ issued = <<>>
    /\ uploads = EmptyMap
    /\ listed = NotListed
    /\ swept = [p \in Procs |-> {}]

\* The caller of the last segment has taken its outcome.
Ready == ev = NoEvent

OthersIdle(p) == \A q \in Procs \ {p} : calls[q].pc = "idle"

\* `solo` of a suspended call: no segment of another call has run since it
\* was entered.  Every segment clears it for the calls suspended meanwhile.
Disturbed ==
    [q \in Procs |->
        IF calls[q].pc = "idle" THEN calls[q] ELSE [calls[q] EXCEPT !.solo = FALSE]]


AllIdle == \A q \in Procs : calls[q].pc = "idle"

\* A session may be added: the bound on the size of the store.
Room == Cardinality(DOMAIN activeSessions) < MaxSessions

\* ----------------------------------------------------------- actions
\* Every event carries `before`, the store as the segment found it.

\* One createSession call with random draw r, the clock advancing by d
\* between the read of the id and the read of `created`.
createSessionCall(r, d) ==
    LET made == createSessionRun(apiKey, activeSessions, now, r, now + d)
    IN /\ Ready
       /\ Room
       /\ activeSessions' = made.store
       /\ now' = now + d
       /\ ev' = [op |-> "createSession", step |-> "call", phase |-> "return",
                 proc |-> 0, before |-> activeSessions,
                 outcome |-> IF made.ok THEN "resolved" ELSE "rejected",
                 value |-> made.id, error |-> made.error]
       /\ calls' = Disturbed
       /\ UNCHANGED apiKey

createSession ==
    /\ \E r \in Rand, d \in Delta(now) : createSessionCall(r, d)
    /\ UNCHANGED <<issued, uploads, listed, swept>>

\* executeCode up to its return or to `await this.createSession()`.  `via`
\* names the method the caller entered by, `args` what it passed there.
executeCodeEnter(p, via, args, request, sessionId) ==
    /\ Ready
    /\ \E d \in Delta(now) :
        LET startTime == now
            executionId == ExecutionIdOf(now)
        IN IF Truthy(sessionId)
           THEN LET settled == executeCodeCatch(
                        executeCodeTry(activeSessions, sessionId, executionId,
                                       startTime, now + d),
                        executionId, startTime, now + d)
                IN /\ ev' = [op |-> "executeCode", step |-> "call",
                             phase |-> "return", proc |-> 0,
                             before |-> activeSessions,
                             via |-> via, args |-> args,
                             request |-> request, sessionId |-> sessionId,
                             implicit |-> FALSE, solo |-> AllIdle,
                             outcome |-> settled.outcome, value |-> settled.value]
                   /\ now' = now + d
                   /\ calls' = Disturbed
                   /\ UNCHANGED <<apiKey, activeSessions>>
           ELSE \E rs \in Rand :
                LET made == createSessionRun(apiKey, activeSessions, now, rs, now + d)
                IN /\ calls[p].pc = "idle"
                   /\ Room
                   /\ activeSessions' = made.store
                   /\ calls' = [Disturbed EXCEPT ![p] =
                          [pc |-> "executeCode_await", startTime |-> startTime,
                           executionId |-> executionId,
                           created |-> [ok |-> made.ok, id |-> made.id,
                                        error |-> made.error],
                           solo |-> OthersIdle(p)]]
                   /\ now' = now + d
                   /\ ev' = [op |-> "executeCode", step |-> "call",
                             phase |-> "await", proc |-> p,
                             before |-> activeSessions,
                             via |-> via, args |-> args,
                             request |-> request, sessionId |-> sessionId,
                             implicit |-> TRUE, solo |-> OthersIdle(p),
                             created |-> [ok |-> made.ok, id |-> made.id]]
                   /\ UNCHANGED apiKey
    /\ UNCHANGED <<issued, uploads, listed, swept>>

executeCode(p) ==
    \E request \in Requests, sessionId \in OptionalSessionIds(now) :
        executeCodeEnter(p, "executeCode", [request |-> request], request, sessionId)

\* executeCode after `await this.createSession()`: the awaited promise has
\* settled with the id, or with the error createSession threw.
executeCodeResume(p) ==
    /\ Ready
    /\ calls[p].pc = "executeCode_await"
    /\ \E d \in Delta(now) :
        LET c == calls[p]
            attempt ==
                IF c.created.ok
                THEN executeCodeTry(activeSessions, c.created.id, c.executionId,
                                    c.startTime, now + d)
                ELSE [thrown |-> TRUE, error |-> c.created.error]
            settled == executeCodeCatch(attempt, c.executionId, c.startTime, now + d)
        IN /\ now' = now + d
           /\ ev' = [op |-> "executeCode", step |-> "resume", phase |-> "return",
                     proc |-> p, before |-> activeSessions,
                     implicit |-> TRUE, solo |-> c.solo,
                     created |-> [ok |-> c.created.ok, id |-> c.created.id],
                     outcome |-> settled.outcome, value |-> settled.value]
    /\ calls' = [Disturbed EXCEPT ![p] = Idle]
    /\ UNCHANGED <<apiKey, activeSessions, issued, uploads, listed, swept>>

executeMedicalAnalysis(p) ==
    \E tool \in Tools, data \in DataPayloads, sessionId \in OptionalSessionIds(now) :
        executeCodeEnter(p, "executeMedicalAnalysis", [tool |-> tool, data |-> data],
                         ToolRequest(tool, data), sessionId)

\* One uploadFile call.
uploadFileCall(sessionId, filename, content) ==
    LET got == getSession(activeSessions, sessionId)
    IN /\ Ready
       /\ ev' = [op |-> "uploadFile", step |-> "call", phase |-> "return",
                 proc |-> 0, before |-> activeSessions,
                 sessionId |-> sessionId, filename |-> filename,
                 content |-> content,
                 outcome |-> IF got.ok THEN "resolved" ELSE "rejected",
                 value |-> IF got.ok THEN filename ELSE "",
                 error |-> got.error]
       /\ calls' = Disturbed
       /\ UNCHANGED <<apiKey, activeSessions, now, issued>>

uploadFile ==
    /\ \E sessionId \in SessionIdStrings(now), filename \in Filenames, content \in Contents :
        uploadFileCall(sessionId, filename, content)
    /\ UNCHANGED <<uploads, listed, swept>>

downloadFile ==
    /\ Ready
    /\ \E sessionId \in SessionIdStrings(now), filepath \in Filenames :
        LET got == getSession(activeSessions, sessionId)
        IN ev' = [op |-> "downloadFile", step |-> "call", phase |-> "return",
                  proc |-> 0, before |-> activeSessions,
                  sessionId |-> sessionId, filepath |-> filepath,
                  outcome |-> IF got.ok THEN "resolved" ELSE "rejected",
                  value |-> IF got.ok THEN "Mock file content" ELSE "",
                  error |-> got.error]
    /\ calls' = Disturbed
    /\ UNCHANGED <<apiKey, activeSessions, now, issued, uploads, listed, swept>>

destroySession ==
    /\ Ready
    /\ \E sessionId \in SessionIdStrings(now) :
        /\ activeSessions' = destroySessionRun(activeSessions, sessionId)
        /\ ev' = [op |-> "destroySession", step |-> "call", phase |-> "return",
                  proc |-> 0, before |-> activeSessions,
                  sessionId |-> sessionId,
                  outcome |-> destroySessionOutcome(activeSessions, sessionId)]
    /\ calls' = Disturbed
    /\ UNCHANGED <<apiKey, now, issued, uploads, listed, swept>>

\* cleanup up to `await Promise.all(...)`: the key snapshot is taken and every
\* destroySession call has run to its end.
cleanupCall(p) ==
    /\ Ready
    /\ calls[p].pc = "idle"
    /\ \E sessionIds \in KeyOrders(activeSessions) :
        /\ activeSessions' = destroyAll(activeSessions, sessionIds)
        /\ calls' = [Disturbed EXCEPT ![p] =
               [pc |-> "cleanup_await",
                all |-> PromiseAll([i \in DOMAIN sessionIds |->
                           destroySessionOutcome(activeSessions, sessionIds[i])]),
                solo |-> OthersIdle(p)]]
        /\ ev' = [op |-> "cleanup", step |-> "call", phase |-> "await",
                  proc |-> p, before |-> activeSessions,
                  solo |-> OthersIdle(p), count |-> Len(sessionIds)]
    /\ UNCHANGED <<apiKey, now>>

cleanup(p) ==
    /\ cleanupCall(p)
    /\ UNCHANGED <<issued, uploads, listed, swept>>

\* cleanup after the await: it settles as Promise.all did.
cleanupResume(p) ==
    /\ Ready
    /\ calls[p].pc = "cleanup_await"
    /\ calls' = [Disturbed EXCEPT ![p] = Idle]
    /\ ev' = [op |-> "cleanup", step |-> "resume", phase |-> "return",
              proc |-> p, before |-> activeSessions,
              solo |-> calls[p].solo, outcome |-> calls[p].all]
    /\ UNCHANGED <<apiKey, activeSessions, now, issued, uploads, listed, swept>>

getSessionStatus ==
    /\ Ready
    /\ \E sessionId \in SessionIdStrings(now) :
        ev' = [op |-> "getSessionStatus", step |-> "call", phase |-> "return",
               proc |-> 0, before |-> activeSessions,
               sessionId |-> sessionId,
               value |-> [exists |-> MapHas(activeSessions, sessionId),
                          active |-> MapHas(activeSessions, sessionId)]]
    /\ calls' = Disturbed
    /\ UNCHANGED <<apiKey, activeSessions, now, issued, uploads, listed, swept>>

\* One listActiveSessions call returning the keys in the order `keys`.
listActiveSessionsCall(keys) ==
    /\ Ready
    /\ ev' = [op |-> "listActiveSessions", step |-> "call", phase |-> "return",
              proc |-> 0, before |-> activeSessions, value |-> keys]
    /\ calls' = Disturbed
    /\ UNCHANGED <<apiKey, activeSessions, now, issued, uploads, swept>>

listActiveSessions ==
    /\ \E keys \in KeyOrders(activeSessions) : listActiveSessionsCall(keys)
    /\ UNCHANGED listed

healthCheck ==
    /\ Ready
    /\ ev' = [op |-> "healthCheck", step |-> "call", phase |-> "return",
              proc |-> 0, before |-> activeSessions,
              outcome |-> "resolved", value |-> healthCheckRun(apiKey)]
    /\ calls' = Disturbed
    /\ UNCHANGED <<apiKey, activeSessions, now, issued, uploads, listed, swept>>

\* The caller takes the outcome of the last segment.
Observe ==
    /\ ~Ready
    /\ ev' = NoEvent
    /\ UNCHANGED <<apiKey, activeSessions, now, calls, issued, uploads, listed, swept>>

Next ==
    \/ createSession
    \/ \E p \in Procs : executeCode(p)
    \/ \E p \in Procs : executeCodeResume(p)
    \/ \E p \in Procs : executeMedicalAnalysis(p)
    \/ uploadFile
    \/ downloadFile
    \/ destroySession
    \/ \E p \in Procs : cleanup(p)
    \/ \E p \in Procs : cleanupResume(p)
    \/ getSessionStatus
    \/ listActiveSessions
    \/ healthCheck
    \/ Observe

Spec == Init /\ [][Next]_vars

\* Runs of successive createSession calls, each on an empty store, with reads
\* of the store in between; `issued` lists the ids the calls of the current
\* run returned.
createSessionNext ==
    /\ Len(issued) < MaxSessions
    /\ \E r \in Rand, d \in Delta(now) :
        /\ createSessionCall(r, d)
        /\ issued' = IF ev'.outcome = "resolved" THEN Append(issued, ev'.value)
                     ELSE issued
    /\ UNCHANGED <<uploads, listed, swept>>

\* cleanup empties the store: the next createSession call starts a new run.
cleanupRestart(p) ==
    /\ cleanupCall(p)
    /\ issued' = <<>>
    /\ UNCHANGED <<uploads, listed, swept>>

NextSuccessive ==
    \/ createSessionNext
    \/ \E p \in Procs : cleanupRestart(p)
    \/ \E p \in Procs : cleanupResume(p)
    \/ listActiveSessions
    \/ getSessionStatus
    \/ Observe

Successive == Init /\ [][NextSuccessive]_vars

\* File transfers on the sessions of the store; `uploads` keeps, for each
\* session id and each path an uploadFile call on that session returned, the
\* content that call was given.
uploadFileNext ==
    \E sessionId \in SessionIdStrings(now), filename \in Filenames, content \in Contents :
        /\ \/ <<sessionId, filename>> \in DOMAIN uploads
           \/ Cardinality(DOMAIN uploads) < MaxUploads
        /\ uploadFileCall(sessionId, filename, content)
        /\ uploads' = IF ev'.outcome = "resolved"
                      THEN MapSet(uploads, <<sessionId, ev'.value>>, content)
                      ELSE uploads
        /\ UNCHANGED <<listed, swept>>

NextTransfers ==
    \/ createSession
    \/ uploadFileNext
    \/ downloadFile
    \/ destroySession
    \/ Observe

Transfers == Init /\ [][NextTransfers]_vars

\* Dispatch calls among destroySession calls.  The continuation of an await
\* on a settled promise is a job of the microtask queue, which the event loop
\* runs to its end: a suspended executeCode call is resumed, and the caller
\* of a segment takes its outcome.
NextDispatch ==
    \/ \E p \in Procs : executeCode(p)
    \/ \E p \in Procs : executeCodeResume(p)
    \/ destroySession
    \/ Observe

Dispatch ==
    /\ Init
    /\ [][NextDispatch]_vars
    /\ WF_vars(Observe)
    /\ \A p \in Procs : SF_vars(executeCodeResume(p))

\* Array.from(iterator) taken as the iterator itself: a view of the Map.
ArrayFrom_View(keys) == [live |-> TRUE, items |-> keys]

\* Array.from(this.activeSessions.keys()): a new array holding the keys the
\* iterator yields at the call.
ArrayFrom(keys) == [live |-> FALSE, items |-> keys]

\* What the holder of `array` reads from it while the Map is m.
ItemsOf(array, m) ==
    IF array.live THEN CHOOSE keys \in KeyOrders(m) : TRUE ELSE array.items

\* Listings of the store among calls that change it; `listed` is the array
\* the last listActiveSessions call returned, with the keys of the store at
\* that call.
listActiveSessionsKeep ==
    \E keys \in KeyOrders(activeSessions) :
        /\ listActiveSessionsCall(keys)
        /\ listed' = [returned |-> TRUE, array |-> ArrayFrom(keys),
                      at |-> DOMAIN activeSessions]

NextListing ==
    \/ createSession
    \/ destroySession
    \/ \E p \in Procs : cleanup(p)
    \/ \E p \in Procs : cleanupResume(p)
    \/ listActiveSessionsKeep
    \/ Observe

Listing == Init /\ [][NextListing]_vars

\* cleanup calls among calls that create and destroy sessions; `swept` keeps,
\* for each cleanup call, the keys it found in the store.
cleanupSweep(p) ==
    /\ cleanupCall(p)
    /\ swept' = [swept EXCEPT ![p] = DOMAIN activeSessions]
    /\ UNCHANGED <<issued, uploads, listed>>

NextSweep ==
    \/ createSession
    \/ \E p \in Procs : executeCode(p)
    \/ \E p \in Procs : executeCodeResume(p)
    \/ destroySession
    \/ \E p \in Procs : cleanupSweep(p)
    \/ \E p \in Procs : cleanupResume(p)
    \/ Observe

Sweep == Init /\ [][NextSweep]_vars

\* ------------------------------------------------- DatabaseService.paginate
\* What the awaited query answers: an error, or rows with the exact count,
\* which may be missing (null).
QueryAnswers ==
    {[error |-> TRUE, count |-> [present |-> FALSE, n |-> 0]]} \cup
    {[error |-> FALSE, count |-> c] :
        c \in {[present |-> FALSE, n |-> 0]} \cup
              {[present |-> TRUE, n |-> n] : n \in 0..MaxCount}}

\* count || 0
OrZero(count) == IF count.present THEN count.n ELSE 0

\* paginate reporting more rows when the last row of the page is the last row.
paginateRun_Inclusive(page, pageSize, answer) ==
    LET offset == (page - 1) * pageSize
    IN [range |-> <<offset, offset + pageSize - 1>>,
        outcome |-> IF answer.error THEN "rejected" ELSE "resolved",
        value |-> [total_count |-> OrZero(answer.count),
                   page |-> page,
                   page_size |-> pageSize,
                   has_more |-> OrZero(answer.count) >= offset + pageSize]]

\* paginate: the range it requests, and what it returns on the query's answer.
paginateRun(page, pageSize, answer) ==
    LET offset == (page - 1) * pageSize
    IN [range |-> <<offset, offset + pageSize - 1>>,
        outcome |-> IF answer.error THEN "rejected" ELSE "resolved",
        value |-> [total_count |-> OrZero(answer.count),
                   page |-> page,
                   page_size |-> pageSize,
                   has_more |-> OrZero(answer.count) > offset + pageSize]]

paginate ==
    /\ Ready
    /\ \E page \in 1..MaxPage, pageSize \in 1..MaxPageSize, answer \in QueryAnswers :
        LET ran == paginateRun(page, pageSize, answer)
        IN ev' = [op |-> "paginate", step |-> "call", phase |-> "return",
                  proc |-> 0, before |-> activeSessions,
                  page |-> page, pageSize |-> pageSize, answer |-> answer,
                  range |-> ran.range, outcome |-> ran.outcome, value |-> ran.value]
    /\ calls' = Disturbed
    /\ UNCHANGED <<apiKey, activeSessions, now, issued, uploads, listed, swept>>

NextPagination ==
    \/ paginate
    \/ Observe

Pagination == Init /\ [][NextPagination]_vars

\* The last segment was the call of `op` / the return of `op`.
IsCall(op) == ev.op = op /\ ev.step = "call"
Returned(op) == ev.op = op /\ ev.phase = "return"
Keys(m) == DOMAIN m

\* ------------------------------------------------------- HTTP layer
\* index.ts and routes/index.ts.  A handler that touches no state of the
\* service is one segment; POST /api/integrations/e2b/execute is the segment
\* that calls executeCode, the segment that resumes executeCode, and the
\* segment that builds the response from what executeCode returned.

\* What c.req.json() finds in the request: a body that does not parse, the
\* JSON null, or an object.
MalformedBody == [parses |-> FALSE, isNull |-> FALSE]
JsonNull == [parses |-> TRUE, isNull |-> TRUE]
JsonObject(value) == [parses |-> TRUE, isNull |-> FALSE, value |-> value]

\* E2BExecutionRequestSchema, the two limits.
E2BExecutionRequestSchema(request) ==
    /\ request.timeout_seconds >= 1 /\ request.timeout_seconds <= 300
    /\ request.memory_limit_mb >= 128 /\ request.memory_limit_mb <= 8192

\* Bodies posted to the execute route: within the limits of the schema,
\* above the timeout limit, below the memory limit.
ExecuteBodies ==
    {MalformedBody} \cup
    { JsonObject([code |-> "print(1)", language |-> "python",
                  timeout_seconds |-> limits[1], memory_limit_mb |-> limits[2]]) :
        limits \in {<<60, 1024>>, <<301, 1024>>, <<60, 64>>} }

ThreadBodies == {MalformedBody, JsonNull, JsonObject([title |-> "t", content |-> "c"])}

\* The `metadata` every ApiResponse of the routes carries.
Metadata(t, ms) == [timestamp |-> t, request_id |-> "uuid", processing_time_ms |-> ms]

ApiResponseData(data, t, ms) ==
    [success |-> TRUE, data |-> data, metadata |-> Metadata(t, ms)]

ApiResponseError(code, message, t) ==
    [success |-> FALSE, error |-> [code |-> code, message |-> message],
     metadata |-> Metadata(t, 0)]

\* c.json(body, status)
Json(body, status) == [status |-> status, body |-> body]

\* app.onError: the answer to whatever a handler lets escape.
onError(t) ==
    Json(ApiResponseError("INTERNAL_ERROR", "An unexpected error occurred", t), 500)

\* app.notFound: the answer to a request no route matches.
notFoundResponse(t) ==
    Json(ApiResponseError("RESOURCE_NOT_FOUND", "Endpoint not found", t), 404)

\* A handler whose body reads properties of the parsed JSON: the catch block
\* answers when parsing throws, or when the body is null.
BodyThrows(body) == ~body.parses \/ body.isNull

\* The execute route answering a 'failed' result as it answers a rejection.
postE2bExecuteResponse_FailedAsError(settled, t) ==
    IF settled.outcome = "resolved" /\ settled.value.status = "completed"
    THEN Json(ApiResponseData(settled.value, t, settled.value.execution_time_ms), 200)
    ELSE Json(ApiResponseError("E2B_SERVICE_ERROR", "E2B service error", t), 500)

\* The response of the execute route to the settled executeCode promise: the
\* try block on a result, the catch block on a rejection.
postE2bExecuteResponse(settled, t) ==
    IF settled.outcome = "resolved"
    THEN Json(ApiResponseData(settled.value, t, settled.value.execution_time_ms), 200)
    ELSE Json(ApiResponseError("E2B_SERVICE_ERROR", "E2B service error", t), 500)

\* An overall status that counts every aggregated service: the two that are
\* not implemented keep it from 'healthy'.
overallStatus_AllServices(dbConnected, e2bStatus) ==
    IF dbConnected \/ e2bStatus = "connected" THEN "degraded" ELSE "unhealthy"

\* The overall status of GET /health.
overallStatus(dbConnected, e2bStatus) ==
    IF dbConnected /\ e2bStatus = "connected" THEN "healthy"
    ELSE IF dbConnected \/ e2bStatus = "connected" THEN "degraded"
    ELSE "unhealthy"

\* One handler answering in the segment it was entered in.
Respond(method, path, body, response) ==
    /\ Ready
    /\ ev' = [op |-> "http", method |-> method, path |-> path,
              request |-> body, response |-> response,
              before |-> activeSessions]
    /\ calls' = Disturbed
    /\ UNCHANGED <<apiKey, activeSessions, now, issued, uploads, listed, swept>>

\* A GET request: the handler reads no body.
NoBody == [absent |-> TRUE]

getRoot ==
    Respond("GET", "/", NoBody,
            Json([message |-> "AngstromSCD API", version |-> "1.0.0",
                  documentation |-> "/discovery", health |-> "/health"], 200))

\* GET /health: checkDatabaseConnection answers connected or not, and never
\* throws; the e2b status is healthCheck's.
getHealth ==
    \E dbConnected \in BOOLEAN :
        LET e2bHealth == healthCheckRun(apiKey)
            status == overallStatus(dbConnected, e2bHealth.status)
        IN Respond("GET", "/health", NoBody,
                   Json([status |-> status, version |-> "1.0.0", timestamp |-> now,
                         services |-> [database |-> IF dbConnected THEN "connected"
                                                    ELSE "error",
                                       baml_service |-> "disconnected",
                                       vector_service |-> "disconnected",
                                       e2b_service |-> e2bHealth.status],
                         uptime_seconds |-> now],
                        IF status = "healthy" THEN 200 ELSE 503))

getDiscovery ==
    Respond("GET", "/discovery", NoBody,
            Json([service_name |-> "angstromscd-api", version |-> "1.0.0",
                  dependencies |-> <<"supabase", "baml-service", "vector-service", "e2b">>,
                  health_check_url |-> "/health"], 200))

getThreads ==
    Respond("GET", "/api/threads", NoBody,
            Json(ApiResponseData([threads |-> <<>>, total_count |-> 0, page |-> 1,
                                  page_size |-> 20, has_more |-> FALSE], now, 0), 200))

postThreads ==
    \E body \in ThreadBodies :
        Respond("POST", "/api/threads", body,
                IF BodyThrows(body)
                THEN Json(ApiResponseError("VALIDATION_ERROR", "Invalid request", now), 400)
                ELSE Json(ApiResponseData([id |-> "uuid", title |-> body.value.title,
                                           status |-> "active"], now, 0), 201))

getThread ==
    Respond("GET", "/api/threads/:id", NoBody,
            Json(ApiResponseData([id |-> "id", title |-> "Sample Thread",
                                  status |-> "active"], now, 0), 200))

getMessages ==
    Respond("GET", "/api/threads/:id/messages", NoBody,
            Json(ApiResponseData([messages |-> <<>>, total_count |-> 0, page |-> 1,
                                  page_size |-> 20, has_more |-> FALSE], now, 0), 200))

postMessages ==
    \E body \in ThreadBodies :
        Respond("POST", "/api/threads/:id/messages", body,
                IF BodyThrows(body)
                THEN Json(ApiResponseError("VALIDATION_ERROR", "Invalid request", now), 400)
                ELSE Json(ApiResponseData([id |-> "uuid", thread_id |-> "id",
                                           role |-> "user",
                                           content |-> body.value.content], now, 0), 201))

postBaml ==
    \E body \in ThreadBodies :
        Respond("POST", "/api/integrations/baml", body,
                IF BodyThrows(body)
                THEN Json(ApiResponseError("BAML_SERVICE_ERROR", "BAML service error", now), 500)
                ELSE Json(ApiResponseData([id |-> "uuid", template_name |-> "default",
                                           content |-> "Mock BAML response"], now, 500), 200))

postVectorSearch ==
    \E body \in ThreadBodies :
        Respond("POST", "/api/integrations/vector/search", body,
                IF BodyThrows(body)
                THEN Json(ApiResponseError("VECTOR_SERVICE_ERROR", "Vector service error", now), 500)
                ELSE Json(ApiResponseData([collection_name |-> "default", results |-> <<>>,
                                           total_results |-> 0], now, 50), 200))

\* A request to a path (or with a method) no route is registered for.
notFound ==
    \E method \in {"GET", "POST"} :
        Respond(method, "/unknown", NoBody, notFoundResponse(now))

\* POST /api/integrations/e2b/execute up to `await codeExecutor.executeCode(body)`:
\* a body that does not parse is answered by the catch block; any other body
\* is handed to executeCode as it is, without session id.
postE2bExecute(p) ==
    \E body \in ExecuteBodies :
        IF body.parses
        THEN executeCodeEnter(p, "POST /api/integrations/e2b/execute",
                              [body |-> body], body.value, Undefined)
        ELSE Respond("POST", "/api/integrations/e2b/execute", body,
                     postE2bExecuteResponse(
                         [outcome |-> "rejected", value |-> "SyntaxError"], now))

\* The execute route after the await: the response is built from what
\* executeCode settled with.
postE2bExecuteRespond ==
    /\ Returned("executeCode")
    /\ ev' = [op |-> "http", method |-> "POST",
              path |-> "/api/integrations/e2b/execute",
              request |-> JsonObject("parsed"),
              response |-> postE2bExecuteResponse(
                               [outcome |-> ev.outcome, value |-> ev.value], now),
              before |-> activeSessions]
    /\ calls' = Disturbed
    /\ UNCHANGED <<apiKey, activeSessions, now, issued, uploads, listed, swept>>

\* The client takes a response; the execute route takes the executeCode
\* result itself.
ObserveResponse ==
    /\ ~Returned("executeCode")
    /\ Observe

NextHttp ==
    \/ getRoot
    \/ getHealth
    \/ getDiscovery
    \/ getThreads
    \/ postThreads
    \/ getThread
    \/ getMessages
    \/ postMessages
    \/ postBaml
    \/ postVectorSearch
    \/ notFound
    \/ \E p \in Procs : postE2bExecute(p)
    \/ \E p \in Procs : executeCodeResume(p)
    \/ postE2bExecuteRespond
    \/ ObserveResponse

Http == Init /\ [][NextHttp]_vars

\* ------------------------------------------------------------ claims

\* C1: every executeCode call, whatever its request and session id (omitted,
\* in the store, or stale), the store and the credential, settles once, with
\* a result: the promise is resolved, never rejected, and the status of the
\* result is 'completed' or 'failed' (never 'pending', 'running', 'timeout').
\* A call that does not return in the segment it was entered in is suspended
\* in its slot and returns when that slot is resumed.
C1_ExecuteCodeSettles ==
    /\ Returned("executeCode") =>
          /\ ev.outcome = "resolved"
          /\ ev.value.status \in {"completed", "failed"}
    /\ (ev.op = "executeCode" /\ ev.phase = "await") =>
          calls[ev.proc].pc = "executeCode_await"
    /\ \A p \in Procs :
          (Ready /\ calls[p].pc = "executeCode_await") => ENABLED executeCodeResume(p)

\* A call without a session id has returned 'failed' although the credential
\* is configured: the session it created was destroyed while it was suspended.
C1_Witness ==
    /\ Returned("executeCode") /\ ev.step = "resume"
    /\ apiKey # ""
    /\ ev.value.status = "failed"

\* C2 as stated: executeCode called with a session id that is not in the store
\* adds no session, and the result it returns is 'failed' with error type
\* 'SystemError' and a message naming that id.
C2_AnySessionIdNotInStoreFails ==
    (IsCall("executeCode") /\ ev.sessionId # Undefined
        /\ ~MapHas(ev.before, ev.sessionId)) =>
        /\ activeSessions = ev.before
        /\ ev.phase = "return" =>
              /\ ev.value.status = "failed"
              /\ ev.value.error_details.error_type = "SystemError"
              /\ ev.value.error_details.error_message.sessionId = ev.sessionId

\* C2, amended: the same for every non-empty session id that is not in the
\* store; the call returns in the segment it was entered in.
C2_StaleSessionFails ==
    (IsCall("executeCode") /\ Truthy(ev.sessionId)
        /\ ~MapHas(ev.before, ev.sessionId)) =>
        /\ activeSessions = ev.before
        /\ ev.phase = "return"
        /\ ev.outcome = "resolved"
        /\ ev.value.status = "failed"
        /\ ev.value.error_details.error_type = "SystemError"
        /\ ev.value.error_details.error_message = SessionNotFound(ev.sessionId)

\* executeCode has returned for an id createSession once returned and that
\* is no longer in the store, the store holding another session.
C2_Witness ==
    /\ Returned("executeCode") /\ ev.step = "call"
    /\ ev.sessionId \in GeneratedIds
    /\ ~MapHas(ev.before, ev.sessionId)
    /\ ev.before # EmptyMap
    /\ ev.value.status = "failed"

\* C3: with the credential configured and no other operation running, an
\* executeCode call without a session id adds exactly one id that was not in
\* the store before the call, and returns 'completed' with
\* execution_time_ms >= 0, the store then being as the call left it.
C3_ImplicitSessionIsNew ==
    /\ (IsCall("executeCode") /\ ev.sessionId = Undefined /\ apiKey # "" /\ ev.solo) =>
          Cardinality(Keys(activeSessions) \ Keys(ev.before)) = 1
    /\ (Returned("executeCode") /\ ev.step = "resume" /\ apiKey # "" /\ ev.solo) =>
          /\ ev.value.status = "completed"
          /\ ev.value.execution_time_ms >= 0
          /\ MapHas(activeSessions, ev.created.id)
          /\ activeSessions = ev.before

\* C4: the lifecycle of a session id.  An id enters the store only by the
\* createSession call that returns it (a caller's, or the one executeCode
\* makes) and leaves it only by destroySession of that id or by cleanup;
\* executeCode, uploadFile and downloadFile on an id succeed exactly while it
\* is in the store; and no segment changes the record of a session that
\* stays in the store.
C4_SessionLifecycle ==
    ev # NoEvent =>
        /\ Keys(activeSessions) \ Keys(ev.before) \subseteq
              (IF ev.op = "createSession" /\ ev.outcome = "resolved" THEN {ev.value}
               ELSE IF IsCall("executeCode") /\ ev.implicit /\ ev.created.ok
                    THEN {ev.created.id}
               ELSE {})
        /\ (ev.op = "createSession" /\ ev.outcome = "resolved") =>
              MapHas(activeSessions, ev.value)
        /\ Keys(ev.before) \ Keys(activeSessions) =
              (IF ev.op = "destroySession" THEN {ev.sessionId} \cap Keys(ev.before)
               ELSE IF IsCall("cleanup") THEN Keys(ev.before)
               ELSE {})
        /\ (IsCall("executeCode") /\ Truthy(ev.sessionId)) =>
              (ev.value.status = "completed" <=> MapHas(ev.before, ev.sessionId))
        /\ (ev.op \in {"uploadFile", "downloadFile"}) =>
              (ev.outcome = "resolved" <=> MapHas(ev.before, ev.sessionId))
        /\ \A s \in Keys(ev.before) \cap Keys(activeSessions) :
              activeSessions[s] = ev.before[s]

\* C5: destroySession resolves; for an id not in the store it leaves the store
\* as it was; it removes the id and nothing else; and applying it again to
\* the store it left changes nothing.
C5_DestroyIdempotent ==
    ev.op = "destroySession" =>
        /\ ev.outcome = "resolved"
        /\ ~MapHas(ev.before, ev.sessionId) => activeSessions = ev.before
        /\ Keys(activeSessions) = Keys(ev.before) \ {ev.sessionId}
        /\ \A s \in Keys(activeSessions) : activeSessions[s] = ev.before[s]
        /\ destroySessionRun(activeSessions, ev.sessionId) = activeSessions

\* destroySession has removed one of two sessions.
C5_Witness ==
    /\ ev.op = "destroySession"
    /\ MapHas(ev.before, ev.sessionId)
    /\ Cardinality(Keys(ev.before)) = 2
    /\ Cardinality(Keys(activeSessions)) = 1

\* C6: the ids returned by N successive createSession calls on an empty store
\* are pairwise distinct, and the store (and what listActiveSessions returns)
\* then holds N ids.
C6_SuccessiveIdsDistinct ==
    /\ \A i, j \in DOMAIN issued : i # j => issued[i] # issued[j]
    /\ issued # <<>> => Cardinality(Keys(activeSessions)) = Len(issued)
    /\ (issued # <<>> /\ ev.op = "listActiveSessions") => Len(ev.value) = Len(issued)

\* C7: cleanup leaves the store empty whatever it held and in whatever order
\* the destroySession calls run; it resolves; and when no other operation has
\* run since it was called, the store is empty when it resolves.
C7_CleanupEmptiesStore ==
    /\ IsCall("cleanup") =>
          /\ activeSessions = EmptyMap
          /\ \A order \in KeyOrders(ev.before) :
                destroyAll(ev.before, order) = activeSessions
    /\ Returned("cleanup") =>
          /\ ev.outcome = "resolved"
          /\ ev.solo => activeSessions = EmptyMap

\* cleanup has been called on a store of two sessions.
C7_WitnessCall ==
    /\ IsCall("cleanup")
    /\ Cardinality(Keys(ev.before)) = 2

\* C8: the request executeMedicalAnalysis dispatches has the tool's template
\* as code, the tool's packages, language 'python', timeout 120 and memory
\* limit 1024, whatever the data payload; and the call behaves as executeCode
\* does on a session id: it returns at once for a non-empty id, 'completed'
\* exactly when the id is in the store, and creates a session otherwise.
C8_ToolRequestDefaults ==
    (IsCall("executeCode") /\ ev.via = "executeMedicalAnalysis") =>
        /\ ev.request.code = ev.args.tool.code_template
        /\ ev.request.environment.packages = ev.args.tool.required_packages
        /\ ev.request.language = "python"
        /\ ev.request.timeout_seconds = 120
        /\ ev.request.memory_limit_mb = 1024
        /\ DOMAIN ev.request =
              {"code", "language", "environment", "timeout_seconds", "memory_limit_mb"}
        /\ ev.implicit = ~Truthy(ev.sessionId)
        /\ ev.phase = "return" =>
              /\ ev.outcome = "resolved"
              /\ ev.value.status = "completed" <=> MapHas(ev.before, ev.sessionId)

\* executeMedicalAnalysis has returned 'completed' for a payload that names
\* a language, a timeout and a memory limit of its own.
C8_Witness ==
    /\ Returned("executeCode") /\ ev.step = "call"
    /\ ev.via = "executeMedicalAnalysis"
    /\ ev.args.data.kind = "override"
    /\ ev.value.status = "completed"

\* The data a request hands to the execution: the value bound to patient_data.
PatientDataOf(request) ==
    IF "patient_data" \in DOMAIN request THEN {request.patient_data}
    ELSE IF "environment" \in DOMAIN request
            /\ "patient_data" \in DOMAIN request.environment
         THEN {request.environment.patient_data}
    ELSE {}

\* C9: the request executeMedicalAnalysis dispatches carries the caller's data
\* payload, bound as patient_data.
C9_RequestCarriesData ==
    (IsCall("executeCode") /\ ev.via = "executeMedicalAnalysis") =>
        PatientDataOf(ev.request) = {ev.args.data}

\* C10: healthCheck resolves; its status is 'disconnected' exactly when the
\* credential is not configured and 'connected' exactly when it is, whatever
\* the store holds; it is never 'error'; and the store is left as it was.
C10_HealthCheck ==
    ev.op = "healthCheck" =>
        /\ ev.outcome = "resolved"
        /\ ev.value.status = "disconnected" <=> apiKey = ""
        /\ ev.value.status = "connected" <=> apiKey # ""
        /\ ev.value.status # "error"
        /\ activeSessions = ev.before

\* healthCheck has answered 'connected' with a session in the store.
C10_Witness ==
    /\ ev.op = "healthCheck"
    /\ ev.value.status = "connected"
    /\ activeSessions # EmptyMap

\* What a createSession call did, called by itself or by executeCode for a
\* call without session id: how it settled, the id it returned, its error.
CreateSessionRan ==
    \/ Returned("createSession")
    \/ (ev.op = "executeCode" /\ ev.phase = "await")

CreateSessionSettled ==
    IF ev.op = "createSession"
    THEN [ok |-> ev.outcome = "resolved", id |-> ev.value]
    ELSE ev.created

\* C11: construction never fails: the service exists with the credential set
\* or not (apiKey is a string either way).  A createSession call on a service
\* without credential rejects with the configuration error and leaves the
\* store as it found it.  On a service with the credential it resolves with
\* a generated id; afterwards the keys of the store are those it found and
\* the returned id, the record under that id carries the id, and the records
\* under the other ids are the ones it found.
C11_CreateSessionByCredential ==
    /\ apiKey \in {"", "e2b_key"}
    /\ CreateSessionRan =>
        IF apiKey = ""
        THEN /\ ~CreateSessionSettled.ok
             /\ ev.op = "createSession" => ev.error = ConfigurationError
             /\ activeSessions = ev.before
        ELSE /\ CreateSessionSettled.ok
             /\ CreateSessionSettled.id \in GeneratedIds
             /\ Keys(activeSessions) = Keys(ev.before) \cup {CreateSessionSettled.id}
             /\ activeSessions[CreateSessionSettled.id].id = CreateSessionSettled.id
             /\ \A k \in Keys(ev.before) \ {CreateSessionSettled.id} :
                    activeSessions[k] = ev.before[k]

\* A createSession call on a service built without the credential was rejected.
C11_Witness ==
    /\ Returned("createSession")
    /\ apiKey = ""
    /\ ev.outcome = "rejected"

\* C12: uploadFile and downloadFile never change the store.  Called with a
\* session id that is no key of the store (the empty string included) they
\* reject with the error naming that session id; called with a key of the
\* store they resolve, uploadFile with the filename it was given as the
\* identifier of the stored artifact.
C12_TransfersValidateSession ==
    (Returned("uploadFile") \/ Returned("downloadFile")) =>
        /\ activeSessions = ev.before
        /\ IF ev.sessionId \in Keys(ev.before)
           THEN /\ ev.outcome = "resolved"
                /\ ev.op = "uploadFile" => ev.value = ev.filename
           ELSE /\ ev.outcome = "rejected"
                /\ ev.error = SessionNotFound(ev.sessionId)

\* A downloadFile call for a session that was destroyed before was rejected
\* while another session was in the store.
C12_Witness ==
    /\ Returned("downloadFile")
    /\ ev.sessionId \in GeneratedIds
    /\ ev.sessionId \notin Keys(activeSessions)
    /\ activeSessions # EmptyMap
    /\ ev.outcome = "rejected"

\* C13: a downloadFile call on a session of the store, for a path an
\* uploadFile call on that session returned, resolves with the content that
\* uploadFile call was given (the last one, if several returned the path).
C13_RoundTrip ==
    ( /\ Returned("downloadFile")
      /\ ev.sessionId \in Keys(ev.before)
      /\ <<ev.sessionId, ev.filepath>> \in DOMAIN uploads ) =>
        /\ ev.outcome = "resolved"
        /\ ev.value = uploads[<<ev.sessionId, ev.filepath>>]

\* C14: a downloadFile call on a session of the store, for a path no
\* uploadFile call on that session has returned, rejects (with the
\* file-not-found error, which no line of the service creates).
C14_UnknownPathRejected ==
    ( /\ Returned("downloadFile")
      /\ ev.sessionId \in Keys(ev.before)
      /\ <<ev.sessionId, ev.filepath>> \notin DOMAIN uploads ) =>
        ev.outcome = "rejected"

Fields(record) == DOMAIN record

\* C15: the result an executeCode call returns has execution_time_ms and
\* started_at set, and either status 'completed' with stdout and return_value
\* set and no error_details, or status 'failed' with error_details set
\* (error_type and error_message) and neither stdout nor return_value.
C15_ResultShape ==
    Returned("executeCode") =>
        LET result == ev.value
        IN /\ {"execution_time_ms", "started_at"} \subseteq Fields(result)
           /\ \/ /\ result.status = "completed"
                 /\ {"stdout", "return_value"} \subseteq Fields(result)
                 /\ "error_details" \notin Fields(result)
              \/ /\ result.status = "failed"
                 /\ "error_details" \in Fields(result)
                 /\ {"error_type", "error_message"} \subseteq Fields(result.error_details)
                 /\ "stdout" \notin Fields(result)
                 /\ "return_value" \notin Fields(result)

\* An executeCode call without session id, on a service without credential,
\* returned the failed result.
C15_Witness ==
    /\ Returned("executeCode")
    /\ ev.implicit
    /\ apiKey = ""
    /\ ev.value.status = "failed"
    /\ ev.value.error_details.error_message = ConfigurationError

ExecutePath == "/api/integrations/e2b/execute"

\* C16: the execute route hands a request to executeCode only if its
\* timeout_seconds is within [1, 300] and its memory_limit_mb within
\* [128, 8192]: for a request outside the limits the dispatcher is not
\* called, so that no session is created and no result produced for it.
C16_OutOfBoundsNotDispatched ==
    (IsCall("executeCode") /\ ev.via = "POST /api/integrations/e2b/execute") =>
        E2BExecutionRequestSchema(ev.request)

\* C17: whatever executeCode returned to the execute route, a 'failed' result
\* included, the route answers 200 with success = true, the result as data
\* and no error; and a response of the route that is not 2xx answers a body
\* that did not parse, which never reached the dispatcher.
C17_ExecuteRouteAnswers200 ==
    [][ /\ Returned("executeCode") =>
            /\ ev'.op = "http" /\ ev'.path = ExecutePath
            /\ ev'.response.status = 200
            /\ ev'.response.body.success
            /\ "error" \notin Fields(ev'.response.body)
            /\ ev'.response.body.data = ev.value
            /\ ev.value.status \in {"completed", "failed"}
        /\ ( /\ ev'.op = "http" /\ ev'.path = ExecutePath
             /\ ev'.response.status \notin 200..299 ) =>
                (~ev'.request.parses /\ ~Returned("executeCode"))
      ]_vars

\* The route answered 200 with a 'failed' result: the credential is missing.
C17_Witness ==
    /\ ev.op = "http" /\ ev.path = ExecutePath
    /\ apiKey = ""
    /\ ev.response.status = 200
    /\ ev.response.body.success
    /\ ev.response.body.data.status = "failed"

\* C18: a request with a body that does not parse, and a request to an
\* unknown route, are answered as app.onError answers: status 500 and
\* error.code 'INTERNAL_ERROR'.
C18_EscapesAnsweredInternalError ==
    ( /\ ev.op = "http"
      /\ \/ ev.path = "/unknown"
         \/ (ev.method = "POST" /\ ~ev.request.parses) ) =>
        /\ ev.response.status = onError(now).status
        /\ ~ev.response.body.success
        /\ ev.response.body.error.code = onError(now).body.error.code

\* C19: the body of every response has success and metadata, has data or
\* error but not both, and has data exactly when success is true.
C19_UniformEnvelope ==
    ev.op = "http" =>
        LET body == ev.response.body
        IN /\ {"success", "metadata"} \subseteq Fields(body)
           /\ ("data" \in Fields(body)) # ("error" \in Fields(body))
           /\ ("data" \in Fields(body)) <=> body.success

\* The session resolution of the executeCode call that returned: the id the
\* caller passed, or what the call's own createSession settled with.
SessionResolved ==
    IF ev.implicit THEN ev.created ELSE [ok |-> TRUE, id |-> ev.sessionId]

\* C20: an executeCode call that returns has resolved its promise with a
\* result that is 'completed' exactly if its session resolution did not
\* raise and the resolved id was a key of the store at the validation step,
\* and 'failed' otherwise; a call that returns after its await has left its
\* slot; and every call suspended at the await returns.
C20_DispatchStateMachine ==
    /\ [](Returned("executeCode") =>
            LET found == SessionResolved.ok /\ SessionResolved.id \in Keys(ev.before)
            IN /\ ev.outcome = "resolved"
               /\ ev.value.status \in {"completed", "failed"}
               /\ ev.value.status = "completed" <=> found
               /\ ev.step = "resume" => calls[ev.proc].pc = "idle")
    /\ \A p \in Procs :
          (calls[p].pc = "executeCode_await")
              ~> (Returned("executeCode") /\ ev.proc = p)

\* A call without session id returned 'failed' although its createSession had
\* resolved: the session was destroyed while the call was suspended.
C20_Witness ==
    /\ Returned("executeCode") /\ ev.step = "resume"
    /\ ev.created.ok
    /\ ev.created.id \notin Keys(ev.before)
    /\ ev.value.status = "failed"

\* C21: the step of an operation that depends on its own earlier access to
\* the Map runs with no segment of another operation in between.  The one
\* operation with such a later step is executeCode without session id: its
\* validation (line 52) depends on the insert of its createSession call
\* (line 27), and runs when the call is resumed.
C21_NoSegmentInBetween ==
    (ev.op = "executeCode" /\ ev.step = "resume" /\ ev.created.ok) => ev.solo

\* C24: with the credential configured, an executeCode call without session
\* id returns 'completed', whatever ran while it was suspended.
C24_ImplicitCallCompletes ==
    (Returned("executeCode") /\ ev.implicit /\ apiKey # "") =>
        ev.value.status = "completed"

\* The segment that ran last added at most one key to the store, removed
\* none, and left the records under the keys it found as they were, but for
\* the record under the id its createSession call returned.
AddedAtMostOne ==
    /\ Keys(ev.before) \subseteq Keys(activeSessions)
    /\ Cardinality(Keys(activeSessions) \ Keys(ev.before)) <= 1
    /\ \A k \in Keys(ev.before) \ {ev.created.id} : activeSessions[k] = ev.before[k]

\* uploadFile, downloadFile, healthCheck, getSessionStatus and
\* listActiveSessions, and executeCode when it is resumed, leave the store as
\* they find it.
ReadersKeepStore ==
    ( \/ ev.op \in {"uploadFile", "downloadFile", "healthCheck",
                   "getSessionStatus", "listActiveSessions"}
      \/ (ev.op = "executeCode" /\ ev.step = "resume") ) =>
        activeSessions = ev.before

\* C22 as stated: executeCode and executeMedicalAnalysis leave the store as it
\* is whenever the caller passed a session id, and add at most one session
\* and remove none when the caller passed none; the reading operations leave
\* the store as it is.
C22_FrameAnyProvidedId ==
    /\ IsCall("executeCode") =>
        IF ev.sessionId # Undefined
        THEN activeSessions = ev.before
        ELSE AddedAtMostOne
    /\ ReadersKeepStore

\* C22: executeCode and executeMedicalAnalysis leave the store as it is
\* whenever the caller passed a non-empty session id, in the store or stale;
\* with the session id omitted or empty they add at most one session and
\* remove none; the reading operations leave the store as it is.
C22_Frame ==
    /\ IsCall("executeCode") =>
        IF Truthy(ev.sessionId)
        THEN activeSessions = ev.before
        ELSE AddedAtMostOne
    /\ ReadersKeepStore

\* executeMedicalAnalysis was called with the id of a session destroyed
\* before, while another session was in the store, and left the store as it was.
C22_Witness ==
    /\ IsCall("executeCode") /\ ev.via = "executeMedicalAnalysis"
    /\ ev.sessionId \in GeneratedIds
    /\ ev.sessionId \notin Keys(ev.before)
    /\ ev.before # EmptyMap
    /\ activeSessions = ev.before

Elements(seq) == {seq[i] : i \in DOMAIN seq}

\* C23: the sequence a listActiveSessions call returns holds the keys of the
\* store at the call, each once; and what its holder reads from it stays
\* that, whatever createSession, destroySession and cleanup calls follow.
C23_ListingIsSnapshot ==
    /\ Returned("listActiveSessions") =>
        /\ Elements(ev.value) = Keys(ev.before)
        /\ Len(ev.value) = Cardinality(Keys(ev.before))
    /\ listed.returned =>
        LET items == ItemsOf(listed.array, activeSessions)
        IN /\ Elements(items) = listed.at
           /\ Len(items) = Cardinality(listed.at)

\* A returned sequence of one id is held while the store has become empty.
C23_Witness ==
    /\ listed.returned
    /\ Cardinality(listed.at) = 1
    /\ activeSessions = EmptyMap
    /\ ev = NoEvent

\* C25: a cleanup call empties the store of the sessions it finds; when it
\* resolves, each of those ids is absent from the store, and the segment
\* that resolves it removes nothing: the sessions other calls created after
\* its delete pass are still there.
C25_CleanupRemovesWhatItFound ==
    /\ IsCall("cleanup") =>
        /\ swept[ev.proc] = Keys(ev.before)
        /\ activeSessions = EmptyMap
    /\ (ev.op = "cleanup" /\ ev.step = "resume") =>
        /\ ev.outcome = "resolved"
        /\ activeSessions = ev.before
        /\ \A id \in swept[ev.proc] : id \notin Keys(activeSessions)

\* C26: on a service without credential the store is empty in every state;
\* every executeCode and executeMedicalAnalysis call, with or without session
\* id, returns 'failed', and every uploadFile and downloadFile call rejects.
C26_NoCredentialNoSession ==
    apiKey = "" =>
        /\ activeSessions = EmptyMap
        /\ ev.op # "none" => ev.before = EmptyMap
        /\ Returned("executeCode") => ev.value.status = "failed"
        /\ (Returned("uploadFile") \/ Returned("downloadFile")) =>
                ev.outcome = "rejected"

\* On a service without credential, executeMedicalAnalysis called with a
\* well-formed session id returned 'failed'.
C26_Witness ==
    /\ apiKey = ""
    /\ Returned("executeCode") /\ ev.step = "call"
    /\ ev.via = "executeMedicalAnalysis"
    /\ ev.sessionId \in GeneratedIds
    /\ ev.value.status = "failed"

\* C27: on the HTTP surface no step removes a key from the store, and each
\* execute request that reaches executeCode on a service with the credential
\* adds exactly one session: the store has one session more than the request
\* found, so that its size is the number of such requests served.
C27_StoreCountsExecuteRequests ==
    /\ []((IsCall("executeCode") /\ apiKey # "") =>
            Cardinality(Keys(activeSessions)) = Cardinality(Keys(ev.before)) + 1)
    /\ [][Keys(activeSessions) \subseteq Keys(activeSessions')]_vars

C29_HealthAggregation ==
    (ev.op = "http" /\ ev.path = "/health") =>
        LET body == ev.response.body
            db == body.services.database = "connected"
            e2b == body.services.e2b_service = "connected"
        IN /\ body.services.e2b_service = healthCheckRun(apiKey).status
           /\ body.services.database \in {"connected", "error"}
           /\ body.services.baml_service = "disconnected"
           /\ body.services.vector_service = "disconnected"
           /\ body.status =
                IF db /\ e2b THEN "healthy"
                ELSE IF db # e2b THEN "degraded"
                ELSE "unhealthy"
           /\ ev.response.status = IF body.status = "healthy" THEN 200 ELSE 503

\* GET /health answered 200 'healthy' although baml and vector are disconnected.
C29_Witness ==
    /\ ev.op = "http" /\ ev.path = "/health"
    /\ ev.response.status = 200
    /\ ev.response.body.status = "healthy"
    /\ ev.response.body.services.baml_service = "disconnected"

\* C30: for page >= 1 and pageSize >= 1 paginate requests the rows from
\* (page-1)*pageSize to (page-1)*pageSize + pageSize - 1, a range of pageSize
\* rows; when the query answers without error it returns has_more = true
\* exactly when the row count, 0 if it is missing, is greater than
\* page*pageSize, with that count as total_count and page and page_size as
\* they were passed.
C30_Paginate ==
    Returned("paginate") =>
        LET total == IF ev.answer.count.present THEN ev.answer.count.n ELSE 0
        IN /\ ev.page >= 1 /\ ev.pageSize >= 1
           /\ ev.range[1] = (ev.page - 1) * ev.pageSize
           /\ ev.range[2] = (ev.page - 1) * ev.pageSize + ev.pageSize - 1
           /\ ev.range[2] - ev.range[1] + 1 = ev.pageSize
           /\ ev.outcome = "resolved" =>
                /\ ev.value.has_more <=> total > ev.page * ev.pageSize
                /\ ev.value.total_count = total
                /\ ev.value.page = ev.page
                /\ ev.value.page_size = ev.pageSize

\* paginate returned has_more = false for a full last page: the count is
\* page*pageSize.
C30_Witness ==
    /\ Returned("paginate")
    /\ ev.outcome = "resolved"
    /\ ev.page > 1
    /\ ev.answer.count.present
    /\ ev.answer.count.n = ev.page * ev.pageSize
    /\ ~ev.value.has_more

====
